---- MODULE Spec2Model ----
(***************************************************************************)
(* Model of the per-call session coordinator of twilio-rx-assistant:       *)
(* SessionManager (do-server/src/index.ts) and the HoldMusicService it     *)
(* owns (do-server/src/sessionManager.ts).                                 *)
(*                                                                         *)
(* JavaScript handlers run to completion; a handler gives up control only  *)
(* at an await on real I/O.  Every action below is one such run: an event  *)
(* listener up to its first suspension, or the continuation of a suspended *)
(* handler.  Suspended handlers are kept in the bag "tasks".               *)
(***************************************************************************)
EXTENDS Integers, Sequences, FiniteSets, Bags, TLC

\* ---------------------------------------------------------------- bounds
MaxConns == 3          \* sockets ever accepted or dialed in one behaviour
MaxTasks == 1          \* handlers suspended at an await at the same time
MaxLoads == 2          \* the same in SpecHold, where only asset loads suspend
MaxTs == 1             \* largest media timestamp the telephony leg sends
MaxTimers == 2         \* pending hold-music timeouts at the same time
MaxNow == 6            \* time steps the clock advances in one behaviour

\* ------------------------------------------------------ program constants
chunkSize == 160       \* streamAudioChunks: bytes per 20ms frame
sampleRate == 8000     \* generateHoldMusicAudio
duration == 2          \* generateHoldMusicAudio: seconds of tone

CLEANUP_TIMEOUT == 300000          \* 5 minutes
ACTIVITY_CHECK_INTERVAL == 60000   \* 1 minute

\* --------------------------------------------------------- undefined values
NoConn == 0            \* an unset connection id / timer handle
U == -1                \* an unset number
NoStr == ""            \* an unset string
NoBuf == [src |-> "none", len |-> 0]

ConnIds == 1..MaxConns
Timestamps == 0..MaxTs
StreamSids == {"SD1"}
CallSids == {"CA1"}
ItemIds == {"item1"}

VARIABLES
  ws,          \* every socket ever created: its role and readyState
  websockets,  \* SessionManager.websockets: the ids registered in the map
  nextId,      \* generateConnectionId, as a counter of fresh ids
  session,     \* SessionManager.session
  state,       \* HoldMusicService.state
  timers,      \* pending setTimeout(streamInterval) callbacks with their closure
  tasks,       \* handlers suspended at an await
  sent,        \* what the last handler run wrote, in order
  elapsedMs,   \* handleTruncation: the local elapsedMs of its last full run
  lastOp,      \* the handler run that produced the current state
  activity,    \* session.createdAt and session.lastActivity
  now,         \* Date.now()
  cleanupTimer, \* SessionManager.cleanupTimer: when the pending check is due, or U
  claim        \* the assignment of the inbound call and the claim requests in flight

vars == <<ws, websockets, nextId, session, state, timers, tasks, sent, elapsedMs, lastOp,
          activity, now, cleanupTimer, claim>>

\* session.config when no configuration was received
NoConfig == [set |-> FALSE, voice |-> NoStr, tools |-> <<>>]

\* Session = {} (types.ts): every field undefined.
EmptySession ==
  [twilioConnId |-> NoConn, frontendConnId |-> NoConn, modelConnId |-> NoConn,
   config |-> NoConfig, streamSid |-> NoStr, callSid |-> NoStr,
   lastAssistantItem |-> NoStr, responseStartTimestamp |-> U,
   latestMediaTimestamp |-> U, openAIApiKey |-> FALSE]

\* createdAt and lastActivity of Session = {}
NoActivity == [createdAt |-> U, lastActivity |-> U]

\* updateActivity
updateActivity == [activity EXCEPT !.lastActivity = now]

\* scheduleActivityCheck: the time at which the new timeout is due
scheduleActivityCheck == now + ACTIVITY_CHECK_INTERVAL

\* HoldMusicService.state = { isPlaying: false }
IdleHold == [isPlaying |-> FALSE, intervalId |-> NoConn, audioBuffer |-> NoBuf]

Min(a, b) == IF a < b THEN a ELSE b

\* x || 0 for an optional number
OrZero(x) == IF x = U THEN 0 ELSE x

IsOpen(w, c) == w[c].rs = "open"

\* websockets.get(id) && ws.readyState === OPEN
GetOpen(w, m, id) == id # NoConn /\ id \in m /\ IsOpen(w, id)

\* sendToWebSocket: writes only to an open socket
sendToWebSocket(w, log, c, obj) ==
  IF IsOpen(w, c) THEN Append(log, [ch |-> "ws", to |-> c, m |-> obj]) ELSE log

\* ws.close() on our side: the socket stops being open, its close event is still to come
CloseSock(w, c) ==
  IF w[c].rs \in {"open", "connecting"} THEN [w EXCEPT ![c].rs = "closing"] ELSE w

NTasks == BagCardinality(tasks)
Suspend(t) == tasks (+) SetToBag({t})
Resume(t) == tasks (-) SetToBag({t})

\* ------------------------------------------------- HoldMusicService (pure)

DefaultAudioFile == "hold-music.raw"

\* HOLD_MUSIC_CONFIG.alternatives and the custom-filename branch of startHoldMusic
FileNameFor(holdMusicType) ==
  CASE holdMusicType = NoStr -> DefaultAudioFile
    [] holdMusicType = "classical" -> "classical.raw"
    [] holdMusicType = "jazz" -> "jazz.raw"
    [] holdMusicType = "ambient" -> "ambient.raw"
    [] holdMusicType = "breakaway" -> "breakaway.mp3"
    [] OTHER -> holdMusicType

\* generateHoldMusicAudio: one byte per sample
generateHoldMusicAudio == [src |-> "generated", len |-> sampleRate * duration]

\* arrayBufferToBase64: btoa of n bytes is 4 characters per started group of 3
arrayBufferToBase64(chunk) ==
  [src |-> chunk.src, position |-> chunk.position, bytes |-> chunk.len,
   chars |-> 4 * ((chunk.len + 2) \div 3)]

\* a timer-chain id that no pending timer and no stored handle uses
NewChain(st, tms) ==
  CHOOSE k \in 1..(MaxTimers + 2) :
    /\ k # st.intervalId
    /\ \A t \in tms : t.chain # k
    /\ \A j \in 1..(k - 1) : j = st.intervalId \/ \E t \in tms : t.chain = j

\* streamInterval, the closure of streamAudioChunks, run with its own position.
\* out is the sequence of chunks handed to onAudioChunk.
streamInterval(st, tms, chain, position) ==
  IF ~st.isPlaying \/ st.audioBuffer = NoBuf
  THEN [state |-> st, timers |-> tms, out |-> <<>>]
  ELSE LET remainingBytes == st.audioBuffer.len - position
           chunkLength == Min(chunkSize, remainingBytes)
       IN IF chunkLength = 0
          THEN \* position = 0; return: nothing is rescheduled
               [state |-> st, timers |-> tms, out |-> <<>>]
          ELSE IF chunkLength < 0
          THEN \* new Uint8Array(buffer, position, length) throws RangeError
               [state |-> st, timers |-> tms, out |-> <<>>]
          ELSE [state |-> [st EXCEPT !.intervalId = chain],
                timers |-> tms \cup {[chain |-> chain, position |-> position + chunkLength]},
                out |-> <<arrayBufferToBase64(
                           [src |-> st.audioBuffer.src, position |-> position,
                            len |-> chunkLength])>>]

\* streamAudioChunks: a new closure with position 0, run once at once
streamAudioChunks(st, tms) == streamInterval(st, tms, NewChain(st, tms), 0)

\* the tail of startHoldMusic after the asset load(s): audioBuffer is the loaded
\* buffer or NoBuf when nothing was found
BeginPlayback(st, tms, audioBuffer) ==
  LET buf == IF audioBuffer = NoBuf THEN generateHoldMusicAudio ELSE audioBuffer
  IN streamAudioChunks([st EXCEPT !.audioBuffer = buf, !.isPlaying = TRUE], tms)

clearTimeout(tms, id) == {t \in tms : t.chain # id}

stopHoldMusic(st, tms) ==
  IF ~st.isPlaying
  THEN [state |-> st, timers |-> tms]
  ELSE [state |-> IdleHold, timers |-> clearTimeout(tms, st.intervalId)]

resetHoldMusicState(st, tms) ==
  [state |-> IdleHold, timers |-> clearTimeout(tms, st.intervalId)]

\* the sink without its test of streamSid
sendAudioToStream_noStreamTest(w, m, sess, log, audioChunk) ==
  LET log1 == Append(log, [ch |-> "sink", to |-> NoConn, m |-> audioChunk])
  IN IF sess.twilioConnId # NoConn /\ GetOpen(w, m, sess.twilioConnId)
     THEN sendToWebSocket(w, log1, sess.twilioConnId,
            [event |-> "media", streamSid |-> sess.streamSid, payload |-> audioChunk])
     ELSE log1

\* sendAudioToStream, the sink given to startHoldMusic
sendAudioToStream(w, m, sess, log, audioChunk) ==
  LET log1 == Append(log, [ch |-> "sink", to |-> NoConn, m |-> audioChunk])
  IN IF sess.twilioConnId # NoConn /\ sess.streamSid # NoStr
        /\ GetOpen(w, m, sess.twilioConnId)
     THEN sendToWebSocket(w, log1, sess.twilioConnId,
            [event |-> "media", streamSid |-> sess.streamSid, payload |-> audioChunk])
     ELSE log1

\* every chunk of out through the sink (out has at most one)
Sink(w, m, sess, log, out) ==
  IF out = <<>> THEN log ELSE sendAudioToStream(w, m, sess, log, out[1])

\* ------------------------------------------------------ function handlers

\* functionHandlers.ts: the schema names of the dispatch table
FunctionNames == {"fetch_prescription_status_for_rosie"}

backendTools == <<"fetch_prescription_status_for_rosie">>

\* the model events the model leg delivers (event.type and the fields read)
Ev(type, item_id, itemType, name, argsOk) ==
  [type |-> type, item_id |-> item_id, itemType |-> itemType, name |-> name, argsOk |-> argsOk]

\* a response.output_item.done event of a function call with its call id
FnEv(name, argsOk, call_id) ==
  Ev("response.output_item.done", NoStr, "function_call", name, argsOk)
    @@ [call_id |-> call_id]

\* a response.audio.delta event with its base64 audio
DeltaEv(item_id, delta) ==
  Ev("response.audio.delta", item_id, NoStr, NoStr, TRUE) @@ [delta |-> delta]

ModelEvents ==
  {Ev("session.created", NoStr, NoStr, NoStr, TRUE),
   Ev("input_audio_buffer.speech_started", NoStr, NoStr, NoStr, TRUE),
   Ev("response.done", NoStr, NoStr, NoStr, TRUE)}
  \cup {DeltaEv(i, "AQID") : i \in ItemIds \cup {NoStr}}
  \cup {FnEv(n, a, "call_1") :
          n \in FunctionNames \cup {"unknown_function"}, a \in BOOLEAN}
  \cup {Ev("response.output_item.done", NoStr, "message", NoStr, TRUE)}

\* the list with item-done restricted to function calls
shouldBroadcastToFrontends_functionCallOnly(event) ==
  \/ event.type \in {"session.created", "input_audio_buffer.speech_started",
                     "conversation.item.created",
                     "conversation.item.input_audio_transcription.completed",
                     "response.content_part.added", "response.audio_transcript.delta"}
  \/ event.type = "response.output_item.done" /\ event.itemType = "function_call"

shouldBroadcastToFrontends(event) ==
  event.type \in {"session.created", "input_audio_buffer.speech_started",
                  "conversation.item.created",
                  "conversation.item.input_audio_transcription.completed",
                  "response.content_part.added", "response.audio_transcript.delta",
                  "response.output_item.done"}

\* the merge with the tools of the stored config spread last
MergedSession_configWins(config) ==
  [voice |-> IF config.set /\ config.voice # NoStr THEN config.voice ELSE "sage",
   input_audio_format |-> "g711_ulaw", output_audio_format |-> "g711_ulaw",
   tools |-> IF config.set /\ config.tools # <<>> THEN config.tools ELSE backendTools]

\* the session.update sent at session.created: defaults, then config, then tools
MergedSession(config) ==
  [voice |-> IF config.set /\ config.voice # NoStr THEN config.voice ELSE "sage",
   input_audio_format |-> "g711_ulaw", output_audio_format |-> "g711_ulaw",
   tools |-> backendTools \o config.tools]

\* the session objects an observer supplies in a session.update message
Configs ==
  {[set |-> TRUE, voice |-> NoStr, tools |-> <<>>],
   [set |-> TRUE, voice |-> "ash", tools |-> <<"lookup_order">>]}

\* the messages an observer sends that are not hold music controls
FrontendMsg(type, sess) == [type |-> type, session |-> sess]

FrontendMsgs ==
  {FrontendMsg("session.update", cfg) : cfg \in Configs}
  \cup {FrontendMsg("response.create", NoConfig)}

\* handleFrontendMessage without the returns of its hold music branches
FrontendForward_noReturn(w, m, sess, msg) ==
  IF sess.modelConnId # NoConn /\ GetOpen(w, m, sess.modelConnId)
  THEN sendToWebSocket(w, <<>>, sess.modelConnId, msg)
  ELSE <<>>

\* handleFrontendMessage: what it writes to the model leg for a message
FrontendForward(w, m, sess, msg) ==
  IF msg.type \in {"hold_music.start", "hold_music.stop"}
  THEN <<>>
  ELSE IF sess.modelConnId # NoConn /\ GetOpen(w, m, sess.modelConnId)
       THEN sendToWebSocket(w, <<>>, sess.modelConnId, msg)
       ELSE <<>>

\* the model socket the session would write to, or NoConn
ModelWsOpen(w, m, sess) ==
  IF sess.modelConnId # NoConn /\ GetOpen(w, m, sess.modelConnId)
  THEN sess.modelConnId ELSE NoConn

\* functionHandlers.ts: what the handler returns, a JSON text
HandlerResult == "{patient:Rosie,status:Ready for pickup}"

\* JSON.stringify of a string: the text in double quotes
JSONstringify(str) == "\"" \o str \o "\""

\* the two messages in the opposite order
SendFunctionOutput_responseFirst(w, m, sess, log, item) ==
  IF ModelWsOpen(w, m, sess) = NoConn THEN log
  ELSE sendToWebSocket(w,
         sendToWebSocket(w, log, sess.modelConnId, [type |-> "response.create"]),
         sess.modelConnId,
         [type |-> "conversation.item.create",
          item |-> [type |-> "function_call_output", call_id |-> item.call_id,
                    output |-> JSONstringify(HandlerResult)]])

\* the two messages of handleFunctionCall's success path
SendFunctionOutput(w, m, sess, log, item) ==
  IF ModelWsOpen(w, m, sess) = NoConn THEN log
  ELSE sendToWebSocket(w,
         sendToWebSocket(w, log, sess.modelConnId,
           [type |-> "conversation.item.create",
            item |-> [type |-> "function_call_output", call_id |-> item.call_id,
                      output |-> JSONstringify(HandlerResult)]]),
         sess.modelConnId, [type |-> "response.create"])

\* the success path without its cleanup
StopAfterSuccess_skipped(st, tms) == [state |-> st, timers |-> tms]

\* hold-music cleanup in handleFunctionCall after the handler returned
StopAfterSuccess(st, tms) == IF st.isPlaying THEN stopHoldMusic(st, tms)
                             ELSE [state |-> st, timers |-> tms]

\* the catch block without its cleanup
StopAfterError_skipped(st, tms) == [state |-> st, timers |-> tms]

\* hold-music cleanup in the catch block of handleFunctionCall
StopAfterError(st, tms) == IF st.isPlaying THEN stopHoldMusic(st, tms)
                           ELSE [state |-> st, timers |-> tms]

\* audio_end_ms without the clamp
AudioEndMs_unclamped(elapsed) == elapsed

\* handleTruncation: audio_end_ms
AudioEndMs(elapsed) == IF elapsed > 0 THEN elapsed ELSE 0

\* the guard without its test of lastAssistantItem
TruncationSkipped_startOnly(sess) == sess.responseStartTimestamp = U

\* handleTruncation: the guard of its early return
TruncationSkipped(sess) ==
  sess.lastAssistantItem = NoStr \/ sess.responseStartTimestamp = U

\* the end of handleTruncation clearing only the item id
ClearUtterance_itemOnly(sess) == [sess EXCEPT !.lastAssistantItem = NoStr]

\* handleTruncation: its two closing assignments
ClearUtterance(sess) ==
  [sess EXCEPT !.lastAssistantItem = NoStr, !.responseStartTimestamp = U]

\* ------------------------------------------------------------ suspensions

NoEv == Ev(NoStr, NoStr, NoStr, NoStr, TRUE)

\* a handler suspended at an await: pc names the await, the rest is what its
\* continuation still needs
Task(pc, ev, holdMusicType, attempt, began) ==
  [pc |-> pc, ev |-> ev, holdMusicType |-> holdMusicType, attempt |-> attempt,
   began |-> began]

DialTask == Task("dial", NoEv, NoStr, 0, FALSE)

Op(name, began) == [name |-> name, startedHold |-> began]

\* ---------------------------------------------------------------- Init

\* the operator sessions that claim the inbound call
SessionIds == {"opA", "opB"}

\* the claim of the inbound call before any request: the assignment Session
\* holds no assignedTo, no claim request is in flight, none was answered
NoClaim ==
  [assignedTo |-> NoStr,
   req |-> [s \in SessionIds |-> [pc |-> "idle", before |-> NoStr]],
   granted |-> {}]

Init ==
  /\ ws = [c \in ConnIds |-> [role |-> "none", rs |-> "none"]]
  /\ websockets = {}
  /\ nextId = 1
  /\ session = EmptySession
  /\ state = IdleHold
  /\ timers = {}
  /\ tasks = EmptyBag
  /\ sent = <<>>
  /\ elapsedMs = 0
  /\ lastOp = Op("init", FALSE)
  /\ now = 0
  /\ activity = [createdAt |-> 0, lastActivity |-> 0]
  /\ cleanupTimer = ACTIVITY_CHECK_INTERVAL
  /\ claim = NoClaim

\* ------------------------------------------------- connections and closes

\* handleWebSocket('call') with handleCallConnection
CallConnect ==
  /\ nextId <= MaxConns
  /\ LET old == session.twilioConnId
         w1 == IF old # NoConn /\ old \in websockets THEN CloseSock(ws, old) ELSE ws
     IN ws' = [w1 EXCEPT ![nextId] = [role |-> "call", rs |-> "open"]]
  /\ websockets' = websockets \cup {nextId}
  /\ nextId' = nextId + 1
  /\ session' = [session EXCEPT !.twilioConnId = nextId, !.openAIApiKey = TRUE]
  /\ sent' = <<>>
  /\ lastOp' = Op("call_connect", FALSE)
  /\ UNCHANGED <<state, timers, tasks, elapsedMs>>
  /\ activity' = updateActivity
  /\ UNCHANGED <<now, cleanupTimer, claim>>

\* handleFrontendConnection closing the previous primary as handleCallConnection does
FrontendConnect_closesPrior ==
  /\ nextId <= MaxConns
  /\ LET old == session.frontendConnId
         w1 == IF old # NoConn /\ old \in websockets THEN CloseSock(ws, old) ELSE ws
     IN ws' = [w1 EXCEPT ![nextId] = [role |-> "logs", rs |-> "open"]]
  /\ websockets' = websockets \cup {nextId}
  /\ nextId' = nextId + 1
  /\ session' = [session EXCEPT !.frontendConnId = nextId]
  /\ sent' = <<>>
  /\ lastOp' = Op("frontend_connect", FALSE)
  /\ UNCHANGED <<state, timers, tasks, elapsedMs>>
  /\ activity' = updateActivity
  /\ UNCHANGED <<now, cleanupTimer, claim>>

\* handleWebSocket('logs') with handleFrontendConnection
FrontendConnect ==
  /\ nextId <= MaxConns
  /\ ws' = [ws EXCEPT ![nextId] = [role |-> "logs", rs |-> "open"]]
  /\ websockets' = websockets \cup {nextId}
  /\ nextId' = nextId + 1
  /\ session' = [session EXCEPT !.frontendConnId = nextId]
  /\ sent' = <<>>
  /\ lastOp' = Op("frontend_connect", FALSE)
  /\ UNCHANGED <<state, timers, tasks, elapsedMs>>
  /\ activity' = updateActivity
  /\ UNCHANGED <<now, cleanupTimer, claim>>

\* cleanupCallConnection: the new values of what it touches
cleanupCallConnection(w, m, sess, st, tms) ==
  LET h == resetHoldMusicState(st, tms)
      mc == sess.modelConnId
  IN [ws |-> IF mc # NoConn /\ mc \in m THEN CloseSock(w, mc) ELSE w,
      websockets |-> IF mc # NoConn THEN m \ {mc} ELSE m,
      session |-> [sess EXCEPT !.twilioConnId = NoConn, !.modelConnId = NoConn,
                               !.streamSid = NoStr, !.callSid = NoStr,
                               !.lastAssistantItem = NoStr,
                               !.responseStartTimestamp = U,
                               !.latestMediaTimestamp = U],
      state |-> h.state, timers |-> h.timers,
      activity |-> updateActivity, cleanupTimer |-> scheduleActivityCheck]

\* cleanupAllConnections
cleanupAllConnections(w, m, st, tms) ==
  LET h == resetHoldMusicState(st, tms)
  IN [ws |-> [c \in ConnIds |-> IF c \in m /\ IsOpen(w, c)
                                 THEN [w[c] EXCEPT !.rs = "closing"] ELSE w[c]],
      websockets |-> {},
      session |-> EmptySession,
      state |-> h.state, timers |-> h.timers,
      activity |-> NoActivity, cleanupTimer |-> U]

\* the test of the close listener without the comparison of the ids
IsCurrentCall_anyCall(sess, role, c) == role = "call"

\* the close listener's test: the socket is the telephony leg the Session tracks
IsCurrentCall(sess, role, c) == role = "call" /\ sess.twilioConnId = c

\* the close event of socket c reaches its listener (the peer closed, or the
\* close handshake of our own close() completed)
CloseEvent(c) ==
  /\ ws[c].rs \in {"connecting", "open", "closing"}
  /\ LET w1 == [ws EXCEPT ![c].rs = "closed"]
         m1 == websockets \ {c}
     IN CASE IsCurrentCall(session, ws[c].role, c) ->
               LET r == cleanupCallConnection(w1, m1, session, state, timers)
               IN /\ ws' = r.ws /\ websockets' = r.websockets /\ session' = r.session
                  /\ state' = r.state /\ timers' = r.timers
                  /\ cleanupTimer' = r.cleanupTimer
          [] ws[c].role = "logs" /\ session.frontendConnId = c ->
               /\ ws' = w1 /\ websockets' = m1
               /\ session' = [session EXCEPT !.frontendConnId = NoConn]
               /\ UNCHANGED <<state, timers, cleanupTimer>>
          [] ws[c].role = "model" ->
               /\ ws' = w1 /\ websockets' = m1
               /\ session' = [session EXCEPT !.modelConnId = NoConn]
               /\ UNCHANGED <<state, timers, cleanupTimer>>
          [] OTHER ->
               /\ ws' = w1 /\ websockets' = m1
               /\ UNCHANGED <<session, state, timers, cleanupTimer>>
  /\ activity' = IF ws[c].role = "model" THEN activity ELSE updateActivity
  /\ sent' = <<>>
  /\ lastOp' = [name |-> "close_event", startedHold |-> FALSE,
                callEnded |-> IsCurrentCall(session, ws[c].role, c)]
  /\ UNCHANGED <<nextId, tasks, elapsedMs, now, claim>>

\* the error event of socket c reaches its listener: the listener of an
\* accepted socket only unregisters it, the listener of a model socket also
\* unsets modelConnId; neither closes the socket nor calls a cleanup
ErrorEvent(c) ==
  /\ ws[c].rs \in {"connecting", "open", "closing"}
  /\ websockets' = websockets \ {c}
  /\ IF ws[c].role = "model"
     THEN /\ session' = [session EXCEPT !.modelConnId = NoConn]
          /\ UNCHANGED activity
     ELSE /\ UNCHANGED session
          /\ activity' = updateActivity
  /\ sent' = <<>>
  /\ lastOp' = [name |-> "error_event", startedHold |-> FALSE, conn |-> c]
  /\ UNCHANGED <<ws, nextId, state, timers, tasks, elapsedMs, now, cleanupTimer, claim>>

\* ------------------------------------------------------- telephony messages

\* the guards without the test for a model socket that is already open
ShouldDial_noOpenTest(w, m, sess) ==
  sess.twilioConnId # NoConn /\ sess.streamSid # NoStr /\ sess.openAIApiKey

\* tryConnectModel: the guards before the handshake request
ShouldDial(w, m, sess) ==
  /\ sess.twilioConnId # NoConn /\ sess.streamSid # NoStr /\ sess.openAIApiKey
  /\ ~(sess.modelConnId # NoConn /\ GetOpen(w, m, sess.modelConnId))

\* handleTwilioMessage 'start', up to the await of the handshake request
TwilioStart(c, streamSid, callSid) ==
  /\ ws[c].role = "call" /\ IsOpen(ws, c)
  /\ LET s1 == [session EXCEPT !.streamSid = streamSid, !.callSid = callSid,
                               !.latestMediaTimestamp = 0,
                               !.lastAssistantItem = NoStr,
                               !.responseStartTimestamp = U]
     IN /\ session' = s1
        /\ IF ShouldDial(ws, websockets, s1)
           THEN /\ NTasks < MaxTasks
                /\ tasks' = Suspend(DialTask)
           ELSE tasks' = tasks
  /\ sent' = <<>>
  /\ lastOp' = Op("start", FALSE)
  /\ UNCHANGED <<ws, websockets, nextId, state, timers, elapsedMs>>
  /\ activity' = updateActivity
  /\ UNCHANGED <<now, cleanupTimer, claim>>

\* the append event with msg.payload read in place of msg.media.payload
AppendEvent_noPayload(payload) == [type |-> "input_audio_buffer.append", audio |-> NoStr]

\* handleTwilioMessage 'media': the event sent to the model
AppendEvent(payload) == [type |-> "input_audio_buffer.append", audio |-> payload]

\* handleTwilioMessage 'media'; lastOp keeps the message that was handled
TwilioMedia(c, timestamp, payload) ==
  /\ ws[c].role = "call" /\ IsOpen(ws, c)
  /\ session' = [session EXCEPT !.latestMediaTimestamp = timestamp]
  /\ sent' = IF ModelWsOpen(ws, websockets, session) # NoConn
             THEN sendToWebSocket(ws, <<>>, session.modelConnId, AppendEvent(payload))
             ELSE <<>>
  /\ lastOp' = [name |-> "media", startedHold |-> FALSE,
                timestamp |-> timestamp, payload |-> payload]
  /\ UNCHANGED <<ws, websockets, nextId, state, timers, tasks, elapsedMs>>
  /\ activity' = updateActivity
  /\ UNCHANGED <<now, cleanupTimer, claim>>

\* handleTwilioMessage 'close'
TwilioClose(c) ==
  /\ ws[c].role = "call" /\ IsOpen(ws, c)
  /\ LET r == cleanupAllConnections(ws, websockets, state, timers)
     IN /\ ws' = r.ws /\ websockets' = r.websockets /\ session' = r.session
        /\ state' = r.state /\ timers' = r.timers
        /\ activity' = r.activity /\ cleanupTimer' = r.cleanupTimer
  /\ sent' = <<>>
  /\ lastOp' = Op("stream_close", FALSE)
  /\ UNCHANGED <<nextId, tasks, elapsedMs, now, claim>>

\* --------------------------------------------------------- model handshake

\* tryConnectModel after the await: the request failed or returned no socket
DialFail ==
  /\ DialTask \in DOMAIN tasks
  /\ tasks' = Resume(DialTask)
  /\ sent' = <<>>
  /\ lastOp' = Op("dial_failed", FALSE)
  /\ UNCHANGED <<ws, websockets, nextId, session, state, timers, elapsedMs>>
  /\ UNCHANGED <<activity, now, cleanupTimer, claim>>

\* tryConnectModel after the await: a socket was returned, open or not yet
DialResume(readyState) ==
  /\ DialTask \in DOMAIN tasks
  /\ nextId <= MaxConns
  /\ tasks' = Resume(DialTask)
  /\ ws' = [ws EXCEPT ![nextId] = [role |-> "model", rs |-> readyState]]
  /\ session' = [session EXCEPT !.modelConnId = nextId]
  /\ websockets' = IF readyState = "open" THEN websockets \cup {nextId} ELSE websockets
  /\ nextId' = nextId + 1
  /\ sent' = <<>>
  /\ lastOp' = Op("dial_done", FALSE)
  /\ UNCHANGED <<state, timers, elapsedMs>>
  /\ UNCHANGED <<activity, now, cleanupTimer, claim>>

\* the 'open' listener of a model socket that was not open when accepted
ModelOpen(c) ==
  /\ ws[c].role = "model" /\ ws[c].rs = "connecting"
  /\ ws' = [ws EXCEPT ![c].rs = "open"]
  /\ websockets' = websockets \cup {c}
  /\ sent' = <<>>
  /\ lastOp' = Op("model_open", FALSE)
  /\ UNCHANGED <<nextId, session, state, timers, tasks, elapsedMs>>
  /\ UNCHANGED <<activity, now, cleanupTimer, claim>>

\* ------------------------------------------------------------ model events

\* handleFunctionCall up to the await of the handler; st and tms are the hold
\* music state it starts from, log what this run has written so far, tk the
\* suspended handlers without the one running
handleFunctionCall(item, log, tk, began, st, tms) ==
  /\ state' = st /\ timers' = tms
  /\ sent' = log
  /\ IF item.name \notin FunctionNames
     THEN \* throws; the message listener catches and logs
          /\ tasks' = tk
          /\ lastOp' = Op("fn_notfound", began)
     ELSE IF ~item.argsOk
     THEN \* JSON.parse throws: logged, return
          /\ tasks' = tk
          /\ lastOp' = Op("fn_badargs", began)
     ELSE /\ tasks' = tk (+) SetToBag({Task("handler", item, NoStr, 0, began)})
          /\ lastOp' = Op("fn_called", began)
  /\ UNCHANGED <<ws, websockets, nextId, session, elapsedMs>>

\* the start reference taken at every audio delta
StartReference_always(sess) == OrZero(sess.latestMediaTimestamp)

\* response.audio.delta: responseStartTimestamp is set only when undefined
StartReference(sess) ==
  IF sess.responseStartTimestamp = U THEN OrZero(sess.latestMediaTimestamp)
  ELSE sess.responseStartTimestamp

\* handleTruncation
handleTruncation(log, tk) ==
  /\ tasks' = tk
  /\ IF TruncationSkipped(session)
     THEN /\ sent' = log
          /\ lastOp' = Op("truncation_skipped", FALSE)
          /\ UNCHANGED <<session, elapsedMs>>
     ELSE LET elapsed == OrZero(session.latestMediaTimestamp)
                           - OrZero(session.responseStartTimestamp)
              log1 == IF ModelWsOpen(ws, websockets, session) # NoConn
                      THEN sendToWebSocket(ws, log, session.modelConnId,
                             [type |-> "conversation.item.truncate",
                              item_id |-> session.lastAssistantItem,
                              content_index |-> 0,
                              audio_end_ms |-> AudioEndMs(elapsed)])
                      ELSE log
              log2 == IF session.twilioConnId # NoConn /\ session.streamSid # NoStr
                         /\ GetOpen(ws, websockets, session.twilioConnId)
                      THEN sendToWebSocket(ws, log1, session.twilioConnId,
                             [event |-> "clear", streamSid |-> session.streamSid])
                      ELSE log1
          IN /\ elapsedMs' = elapsed
             /\ sent' = log2
             /\ session' = ClearUtterance(session)
             /\ lastOp' = Op("truncation", FALSE)
  /\ UNCHANGED <<ws, websockets, nextId, state, timers>>

\* the switch of handleModelMessage
Dispatch(event, log, tk) ==
  CASE event.type = "session.created" ->
         /\ sent' = IF ModelWsOpen(ws, websockets, session) # NoConn
                    THEN LET mc == session.modelConnId
                             l1 == sendToWebSocket(ws, log, mc,
                                     [type |-> "session.update",
                                      session |-> MergedSession(session.config)])
                             l2 == sendToWebSocket(ws, l1, mc,
                                     [type |-> "conversation.item.create",
                                      itemType |-> "message", role |-> "system"])
                         IN sendToWebSocket(ws, l2, mc, [type |-> "response.create"])
                    ELSE log
         /\ tasks' = tk
         /\ lastOp' = Op("session.created", FALSE)
         /\ UNCHANGED <<ws, websockets, nextId, session, state, timers, elapsedMs>>
    [] event.type = "input_audio_buffer.speech_started" ->
         handleTruncation(log, tk)
    [] event.type = "response.audio.delta" ->
         /\ IF session.twilioConnId # NoConn /\ session.streamSid # NoStr
            THEN /\ session' =
                      [session EXCEPT
                         !.responseStartTimestamp = StartReference(session),
                         !.lastAssistantItem =
                            IF event.item_id # NoStr THEN event.item_id ELSE @]
                 /\ sent' = IF GetOpen(ws, websockets, session.twilioConnId)
                            THEN LET tc == session.twilioConnId
                                 IN sendToWebSocket(ws,
                                      sendToWebSocket(ws, log, tc,
                                        [event |-> "media", streamSid |-> session.streamSid,
                                         payload |-> event.delta]),
                                      tc, [event |-> "mark", streamSid |-> session.streamSid])
                            ELSE log
            ELSE /\ sent' = log
                 /\ UNCHANGED session
         /\ tasks' = tk
         /\ lastOp' = [name |-> "audio.delta", startedHold |-> FALSE, event |-> event]
         /\ UNCHANGED <<ws, websockets, nextId, state, timers, elapsedMs>>
    [] event.type = "response.output_item.done" /\ event.itemType = "function_call" ->
         IF ~state.isPlaying
         THEN \* startHoldMusic(sink) awaits the load of the default asset
              /\ tasks' = tk (+) SetToBag({Task("load", event, NoStr, 1, TRUE)})
              /\ sent' = log
              /\ lastOp' = Op("fn_hold_start", TRUE)
              /\ UNCHANGED <<ws, websockets, nextId, session, state, timers, elapsedMs>>
         ELSE handleFunctionCall(event, log, tk, FALSE, state, timers)
    [] OTHER ->
         /\ sent' = log
         /\ tasks' = tk
         /\ lastOp' = Op("model_event", FALSE)
         /\ UNCHANGED <<ws, websockets, nextId, session, state, timers, elapsedMs>>

\* the message listener of model socket c: handleModelMessage up to the await
\* of the broadcast, or to its end when the event is not broadcast
ModelEvent(c, event) ==
  /\ ws[c].role = "model" /\ IsOpen(ws, c)
  /\ LET log == IF session.frontendConnId # NoConn
                   /\ GetOpen(ws, websockets, session.frontendConnId)
                THEN sendToWebSocket(ws, <<>>, session.frontendConnId, event)
                ELSE <<>>
     IN IF shouldBroadcastToFrontends(event)
        THEN /\ NTasks < MaxTasks
             /\ tasks' = Suspend(Task("broadcast", event, NoStr, 0, FALSE))
             /\ sent' = Append(log, [ch |-> "broadcast", to |-> NoConn, m |-> event])
             /\ lastOp' = Op("broadcast", FALSE)
             /\ UNCHANGED <<ws, websockets, nextId, session, state, timers, elapsedMs>>
        ELSE Dispatch(event, log, tasks)
  /\ UNCHANGED <<activity, now, cleanupTimer, claim>>

\* handleModelMessage after the await of broadcastToSharedLogsSession
BroadcastResume(t) ==
  /\ t \in DOMAIN tasks /\ t.pc = "broadcast"
  /\ Dispatch(t.ev, <<>>, Resume(t))
  /\ UNCHANGED <<activity, now, cleanupTimer, claim>>

\* handleFunctionCall after the await of the handler, which returned or threw
HandlerResume(t, threw) ==
  /\ t \in DOMAIN tasks /\ t.pc = "handler"
  /\ tasks' = Resume(t)
  /\ IF threw
     THEN LET h == StopAfterError(state, timers)
          IN /\ state' = h.state /\ timers' = h.timers
             /\ sent' = <<>>
             /\ lastOp' = Op("fn_threw", t.began)
     ELSE LET h == StopAfterSuccess(state, timers)
          IN /\ state' = h.state /\ timers' = h.timers
             /\ sent' = SendFunctionOutput(ws, websockets, session, <<>>, t.ev)
             /\ lastOp' = Op("fn_returned", t.began)
  /\ UNCHANGED <<ws, websockets, nextId, session, elapsedMs>>
  /\ UNCHANGED <<activity, now, cleanupTimer, claim>>

\* -------------------------------------------------------------- hold music

\* startHoldMusic after an await of loadAudioFromR2; found tells whether the
\* asset exists and len is its size
LoadResume(t, found, len) ==
  /\ t \in DOMAIN tasks /\ t.pc = "load"
  /\ LET fileName == FileNameFor(t.holdMusicType)
     IN IF ~found /\ t.attempt = 1 /\ t.holdMusicType # NoStr
           /\ fileName # DefaultAudioFile
        THEN \* custom file not found: await the load of the default file
             /\ tasks' = Resume(t) (+) SetToBag({[t EXCEPT !.attempt = 2]})
             /\ sent' = <<>>
             /\ lastOp' = Op("hold_load_retry", t.began)
             /\ UNCHANGED <<ws, websockets, nextId, session, state, timers, elapsedMs>>
        ELSE /\ Cardinality(timers) < MaxTimers
             /\ LET audioBuffer ==
                      IF found
                      THEN [src |-> IF t.attempt = 1 THEN fileName ELSE DefaultAudioFile,
                            len |-> len]
                      ELSE NoBuf
                    r == BeginPlayback(state, timers, audioBuffer)
                    log == Sink(ws, websockets, session, <<>>, r.out)
                IN IF t.ev = NoEv
                   THEN /\ state' = r.state /\ timers' = r.timers
                        /\ sent' = log
                        /\ tasks' = Resume(t)
                        /\ lastOp' = Op("hold_started", FALSE)
                        /\ UNCHANGED <<ws, websockets, nextId, session, elapsedMs>>
                   ELSE handleFunctionCall(t.ev, log, Resume(t), TRUE, r.state, r.timers)
  /\ UNCHANGED <<activity, now, cleanupTimer, claim>>

\* a pending timeout of streamInterval fires
Tick(tm) ==
  /\ tm \in timers
  /\ LET r == streamInterval(state, timers \ {tm}, tm.chain, tm.position)
     IN /\ state' = r.state /\ timers' = r.timers
        /\ sent' = Sink(ws, websockets, session, <<>>, r.out)
  /\ lastOp' = Op("tick", FALSE)
  /\ UNCHANGED <<ws, websockets, nextId, session, tasks, elapsedMs>>
  /\ UNCHANGED <<activity, now, cleanupTimer, claim>>

\* handleFrontendMessage 'hold_music.start', up to the await of the asset load
FrontendHoldStart(c, holdMusicType, cap) ==
  /\ ws[c].role = "logs" /\ IsOpen(ws, c)
  /\ IF ~state.isPlaying
     THEN /\ NTasks < cap
          /\ tasks' = Suspend(Task("load", NoEv, holdMusicType, 1, FALSE))
     ELSE tasks' = tasks
  /\ sent' = FrontendForward(ws, websockets, session,
               [type |-> "hold_music.start", holdMusicType |-> holdMusicType])
  /\ lastOp' = Op("hold_music.start", FALSE)
  /\ UNCHANGED <<ws, websockets, nextId, session, state, timers, elapsedMs>>
  /\ activity' = updateActivity
  /\ UNCHANGED <<now, cleanupTimer, claim>>

\* handleFrontendMessage 'hold_music.stop'
FrontendHoldStop(c) ==
  /\ ws[c].role = "logs" /\ IsOpen(ws, c)
  /\ LET h == IF state.isPlaying THEN stopHoldMusic(state, timers)
              ELSE [state |-> state, timers |-> timers]
     IN state' = h.state /\ timers' = h.timers
  /\ sent' = FrontendForward(ws, websockets, session, [type |-> "hold_music.stop"])
  /\ lastOp' = Op("hold_music.stop", FALSE)
  /\ UNCHANGED <<ws, websockets, nextId, session, tasks, elapsedMs>>
  /\ activity' = updateActivity
  /\ UNCHANGED <<now, cleanupTimer, claim>>

\* the assignment of config placed inside the forward's guard
RetainConfig_ifForwarded(w, m, sess, msg) ==
  IF msg.type = "session.update" /\ sess.modelConnId # NoConn
     /\ GetOpen(w, m, sess.modelConnId)
  THEN [sess EXCEPT !.config = msg.session]
  ELSE sess

\* handleFrontendMessage: a session.update is kept as config
RetainConfig(w, m, sess, msg) ==
  IF msg.type = "session.update"
  THEN [sess EXCEPT !.config = msg.session]
  ELSE sess

\* handleFrontendMessage for every other message: forwarded to the model leg
\* if it is open; a session.update is kept as config; lastOp keeps the message
FrontendMessage(c, msg) ==
  /\ ws[c].role = "logs" /\ IsOpen(ws, c)
  /\ sent' = FrontendForward(ws, websockets, session, msg)
  /\ session' = RetainConfig(ws, websockets, session, msg)
  /\ lastOp' = [name |-> msg.type, startedHold |-> FALSE, msg |-> msg]
  /\ UNCHANGED <<ws, websockets, nextId, state, timers, tasks, elapsedMs>>
  /\ activity' = updateActivity
  /\ UNCHANGED <<now, cleanupTimer, claim>>

\* ------------------------------------------------------ lifecycle supervisor

\* the step by which the model advances the clock: half of the grace period
TimeStep == CLEANUP_TIMEOUT \div 4

\* time passes
Advance ==
  /\ now < MaxNow * TimeStep
  /\ now' = now + TimeStep
  /\ sent' = <<>>
  /\ lastOp' = Op("advance", FALSE)
  /\ UNCHANGED <<ws, websockets, nextId, session, state, timers, tasks, elapsedMs,
                 activity, cleanupTimer, claim>>

\* checkAndCleanup: the first test without its count of the connections
ShouldSelfDestruct_idleOnly(m, timeSinceActivity) == timeSinceActivity > CLEANUP_TIMEOUT

\* checkAndCleanup: no connections and inactive for more than the timeout
ShouldSelfDestruct(m, timeSinceActivity) ==
  Cardinality(m) = 0 /\ timeSinceActivity > CLEANUP_TIMEOUT

\* checkAndCleanup: the call ended and inactive for more than half the timeout
CallEndedLongAgo(sess, timeSinceActivity) ==
  /\ sess.twilioConnId = NoConn /\ sess.callSid = NoStr
  /\ 2 * timeSinceActivity > CLEANUP_TIMEOUT

\* the cleanupTimer fires: checkAndCleanup
CheckAndCleanup ==
  /\ cleanupTimer # U /\ now >= cleanupTimer
  /\ LET timeSinceActivity == now - OrZero(activity.lastActivity)
     IN IF \/ ShouldSelfDestruct(websockets, timeSinceActivity)
           \/ CallEndedLongAgo(session, timeSinceActivity)
        THEN LET r == cleanupAllConnections(ws, websockets, state, timers)
             IN /\ ws' = r.ws /\ websockets' = r.websockets /\ session' = r.session
                /\ state' = r.state /\ timers' = r.timers
                /\ activity' = r.activity /\ cleanupTimer' = r.cleanupTimer
                /\ lastOp' = Op("check_cleanup", FALSE)
        ELSE /\ cleanupTimer' = scheduleActivityCheck
             /\ lastOp' = Op("check_kept", FALSE)
             /\ UNCHANGED <<ws, websockets, session, state, timers, activity>>
  /\ sent' = <<>>
  /\ UNCHANGED <<nextId, tasks, elapsedMs, now, claim>>

\* --------------------------------------------------------- http requests

\* the messages posted to /broadcast
BroadcastMsgs ==
  {[type |-> "call_claimed", callSid |-> "CA1", claimedBy |-> "opA"],
   [type |-> "input_audio_buffer.speech_started"]}

\* the loop of handleBroadcast over the entries of websockets from id c on
RECURSIVE BroadcastFrom(_, _, _, _, _)
BroadcastFrom(w, m, c, log, message) ==
  IF c > MaxConns THEN log
  ELSE BroadcastFrom(w, m, c + 1,
                     IF c \in m THEN sendToWebSocket(w, log, c, message) ELSE log,
                     message)

\* handleBroadcast: the message is written to every registered open socket
HandleBroadcast(message) ==
  /\ sent' = BroadcastFrom(ws, websockets, 1, <<>>, message)
  /\ lastOp' = [name |-> "http_broadcast", startedHold |-> FALSE, msg |-> message]
  /\ UNCHANGED <<ws, websockets, nextId, session, state, timers, tasks, elapsedMs,
                 activity, now, cleanupTimer, claim>>

\* ------------------------------------------------------------ call claims

\* what a claim step leaves alone: the Session of the call itself
CallSessionVars ==
  <<ws, websockets, nextId, session, state, timers, tasks, elapsedMs,
    activity, now, cleanupTimer>>

\* the digits an operator enters, as characters
DigitChars == {"0", "1", "2", "3", "4", "5", "6", "7", "8", "9"}
CallerLastFour == <<"1", "2", "3", "4">>
EnteredDigits ==
  {<<"1", "2", "3", "4">>, <<"9", "9", "9", "9">>, <<"1", "2", "a", "4">>,
   <<"1", "2", "3">>}

\* /^\d{4}$/.test(lastFourDigits)
IsFourDigits(d) == Len(d) = 4 /\ \A i \in 1..Len(d) : d[i] \in DigitChars

\* handleVerifyDigits: the entered digits are the last four of the caller
DigitsValid(d) == d = CallerLastFour

ClaimOp(name, s) == [name |-> name, startedHold |-> FALSE, sessionId |-> s]

\* handleClaimCall of operator session s up to the await of storeCallAssignment,
\* or up to its 400 response when the digits are malformed or wrong
ClaimRequest(s, d) ==
  /\ claim.req[s].pc = "idle"
  /\ IF IsFourDigits(d) /\ DigitsValid(d)
     THEN /\ claim' = [claim EXCEPT !.req[s] = [pc |-> "store",
                                                before |-> claim.assignedTo]]
          /\ lastOp' = ClaimOp("claim_request", s)
     ELSE /\ claim' = claim
          /\ lastOp' = ClaimOp("claim_rejected", s)
  /\ sent' = <<>>
  /\ UNCHANGED CallSessionVars

\* handleStore in the assignment Session, on the request of storeCallAssignment
\* for s; handleClaimCall then awaits redirectCallToWebSocket
HandleStore(s) ==
  /\ claim.req[s].pc = "store"
  /\ claim' = [claim EXCEPT !.assignedTo = s, !.req[s].pc = "redirect"]
  /\ lastOp' = ClaimOp("store", s)
  /\ sent' = <<>>
  /\ UNCHANGED CallSessionVars

\* handleClaimCall after the await of redirectCallToWebSocket, which returned
\* redirectSuccess: the success response, or the 500 response
ClaimRedirected(s, redirectSuccess) ==
  /\ claim.req[s].pc = "redirect"
  /\ IF redirectSuccess
     THEN /\ claim' = [claim EXCEPT !.req[s].pc = "idle",
                                    !.granted = @ \cup {s}]
          /\ lastOp' = ClaimOp("claim_ok", s)
     ELSE /\ claim' = [claim EXCEPT !.req[s].pc = "idle"]
          /\ lastOp' = ClaimOp("claim_failed", s)
  /\ sent' = <<>>
  /\ UNCHANGED CallSessionVars

\* handleVerify: the stored assignment names the session
VerifyValid(cl, s) == cl.assignedTo = s

\* handleConnectCall of session s: verifyCallAssignment and its answer
ConnectCall(s) ==
  /\ lastOp' = [name |-> "connect_call", startedHold |-> FALSE, sessionId |-> s,
                valid |-> VerifyValid(claim, s)]
  /\ sent' = <<>>
  /\ UNCHANGED claim
  /\ UNCHANGED CallSessionVars

\* ---------------------------------------------------------- specifications

TimingEvents ==
  {e \in ModelEvents : e.type \in {"input_audio_buffer.speech_started",
                                   "response.audio.delta"}}

FnEvents ==
  {e \in ModelEvents : e.type = "response.output_item.done" /\ e.itemType = "function_call"}

AssetLen == 2 * chunkSize      \* size of the stored asset in SpecFn
AssetLens == {0, 100, 320, 400} \* sizes of the stored assets in SpecHold
HoldTypes == {NoStr, "jazz"}
Payloads == {"AAAA", "BBBB"}   \* msg.media.payload

\* Spec: the connection lifecycle and the model handshake of a Session, from
\* its construction.
Next ==
  \/ CallConnect
  \/ FrontendConnect
  \/ \E c \in ConnIds : CloseEvent(c)
  \/ \E c \in ConnIds, s \in StreamSids, k \in CallSids : TwilioStart(c, s, k)
  \/ \E c \in ConnIds, ts \in Timestamps, p \in Payloads : TwilioMedia(c, ts, p)
  \/ \E c \in ConnIds : TwilioClose(c)
  \/ DialFail
  \/ \E rs \in {"open", "connecting"} : DialResume(rs)
  \/ \E c \in ConnIds : ModelOpen(c)

Spec == Init /\ [][Next]_vars

\* SpecTrunc: the audio timeline of a Session from its construction: the
\* telephony and model legs with their connects, closes and handshakes, the
\* media clock, assistant audio and caller interruptions.
NextTrunc ==
  \/ CallConnect
  \/ \E c \in ConnIds : CloseEvent(c)
  \/ \E c \in ConnIds, s \in StreamSids, k \in CallSids : TwilioStart(c, s, k)
  \/ \E c \in ConnIds, ts \in Timestamps : TwilioMedia(c, ts, "AAAA")
  \/ \E c \in ConnIds : TwilioClose(c)
  \/ DialFail
  \/ \E rs \in {"open", "connecting"} : DialResume(rs)
  \/ \E c \in ConnIds : ModelOpen(c)
  \/ \E c \in ConnIds, e \in TimingEvents : ModelEvent(c, e)
  \/ \E t \in DOMAIN tasks : BroadcastResume(t)

SpecTrunc == Init /\ [][NextTrunc]_vars

HandshakeEvents == {e \in ModelEvents : e.type = "session.created"}

\* SpecCfg: the configuration of the model leg: observers that connect and
\* send messages before and during a call, the handshake of the model leg and
\* its session.created event.
NextCfg ==
  \/ CallConnect
  \/ FrontendConnect
  \/ \E c \in ConnIds : CloseEvent(c)
  \/ \E c \in ConnIds, s \in StreamSids, k \in CallSids : TwilioStart(c, s, k)
  \/ \E rs \in {"open", "connecting"} : DialResume(rs)
  \/ \E c \in ConnIds : ModelOpen(c)
  \/ \E c \in ConnIds, e \in HandshakeEvents : ModelEvent(c, e)
  \/ \E t \in DOMAIN tasks : BroadcastResume(t)
  \/ \E c \in ConnIds, msg \in FrontendMsgs : FrontendMessage(c, msg)
  \/ \E c \in ConnIds : TwilioClose(c)

SpecCfg == Init /\ [][NextCfg]_vars

\* SpecLife: the lifetime of a Session: connections that come and go, the end
\* of the stream, the passing of time and the periodic check.
NextLife ==
  \/ CallConnect
  \/ FrontendConnect
  \/ \E c \in ConnIds : CloseEvent(c)
  \/ \E c \in ConnIds, s \in StreamSids, k \in CallSids : TwilioStart(c, s, k)
  \/ \E c \in ConnIds : TwilioClose(c)
  \/ DialFail
  \/ DialResume("open")
  \/ Advance
  \/ CheckAndCleanup

SpecLife == Init /\ [][NextLife]_vars

\* SpecErr: the connection lifecycle of a Session whose sockets report
\* errors as well as closes.
NextErr ==
  \/ CallConnect
  \/ FrontendConnect
  \/ \E c \in ConnIds : CloseEvent(c)
  \/ \E c \in ConnIds : ErrorEvent(c)
  \/ \E c \in ConnIds, s \in StreamSids, k \in CallSids : TwilioStart(c, s, k)
  \/ \E c \in ConnIds, ts \in Timestamps : TwilioMedia(c, ts, "AAAA")
  \/ DialFail
  \/ \E rs \in {"open", "connecting"} : DialResume(rs)
  \/ \E c \in ConnIds : ModelOpen(c)

SpecErr == Init /\ [][NextErr]_vars

\* SpecClaim: the operators' claims of one inbound call: requests with
\* entered digits, the storing of the assignment, the redirect of the live
\* call and the connect requests that verify the assignment.
NextClaim ==
  \/ \E s \in SessionIds, d \in EnteredDigits : ClaimRequest(s, d)
  \/ \E s \in SessionIds : HandleStore(s)
  \/ \E s \in SessionIds, ok \in BOOLEAN : ClaimRedirected(s, ok)
  \/ \E s \in SessionIds : ConnectCall(s)

SpecClaim == Init /\ [][NextClaim]_vars

\* SpecReplace: a telephony leg that is replaced by a newer one while the
\* older socket's close is still to come, the new call with its model leg, a
\* function call and its hold music.
ReplaceRequests == {FnEv(n, TRUE, "call_1") : n \in FunctionNames}

NextReplace ==
  \/ CallConnect
  \/ \E c \in ConnIds : CloseEvent(c)
  \/ \E c \in ConnIds, s \in StreamSids, k \in CallSids : TwilioStart(c, s, k)
  \/ DialResume("open")
  \/ \E c \in ConnIds, e \in ReplaceRequests : ModelEvent(c, e)
  \/ \E t \in DOMAIN tasks : BroadcastResume(t)
  \/ \E t \in DOMAIN tasks : LoadResume(t, TRUE, AssetLen)
  \/ \E t \in DOMAIN tasks : HandlerResume(t, FALSE)
  \/ \E tm \in timers : Tick(tm)

SpecReplace == Init /\ [][NextReplace]_vars

\* SpecHttp: a Session that holds connections of every kind and receives
\* broadcast requests.
NextHttp ==
  \/ CallConnect
  \/ FrontendConnect
  \/ \E c \in ConnIds : CloseEvent(c)
  \/ \E c \in ConnIds, s \in StreamSids, k \in CallSids : TwilioStart(c, s, k)
  \/ DialResume("open")
  \/ \E message \in BroadcastMsgs : HandleBroadcast(message)

SpecHttp == Init /\ [][NextHttp]_vars

\* A Session with a call in progress: telephony leg 1 with its stream started,
\* model leg 2 open, observer 3 connected.
InitCall ==
  /\ ws = [c \in ConnIds |->
             CASE c = 1 -> [role |-> "call", rs |-> "open"]
               [] c = 2 -> [role |-> "model", rs |-> "open"]
               [] c = 3 -> [role |-> "logs", rs |-> "open"]
               [] OTHER -> [role |-> "none", rs |-> "none"]]
  /\ websockets = {1, 2, 3}
  /\ nextId = 4
  /\ session = [EmptySession EXCEPT !.twilioConnId = 1, !.modelConnId = 2,
                                    !.frontendConnId = 3,
                                    !.streamSid = "SD1", !.callSid = "CA1",
                                    !.latestMediaTimestamp = 0,
                                    !.openAIApiKey = TRUE]
  /\ state = IdleHold
  /\ timers = {}
  /\ tasks = EmptyBag
  /\ sent = <<>>
  /\ elapsedMs = 0
  /\ lastOp = Op("frontend_connect", FALSE)
  /\ now = 0
  /\ activity = [createdAt |-> 0, lastActivity |-> 0]
  /\ cleanupTimer = ACTIVITY_CHECK_INTERVAL
  /\ claim = NoClaim

\* SpecUtter: a call in progress during which the assistant speaks several
\* items one after another: audio of each item, the end of a response, the
\* media clock and caller interruptions.
UtterItems == {"item1", "item2"}

Deltas == {"AQID", "BAUG"}    \* event.delta

UtterEvents ==
  {DeltaEv(i, dl) : i \in UtterItems \cup {NoStr}, dl \in Deltas}
  \cup {Ev("response.done", NoStr, NoStr, NoStr, TRUE),
        Ev("input_audio_buffer.speech_started", NoStr, NoStr, NoStr, TRUE)}

NextUtter ==
  \/ \E c \in ConnIds : CloseEvent(c)
  \/ \E c \in ConnIds, ts \in Timestamps : TwilioMedia(c, ts, "AAAA")
  \/ \E c \in ConnIds, e \in UtterEvents : ModelEvent(c, e)
  \/ \E t \in DOMAIN tasks : BroadcastResume(t)

SpecUtter == InitCall /\ [][NextUtter]_vars

\* SpecFn: function calls and hold music during a call in progress.
NextFn ==
  \/ \E c \in ConnIds : CloseEvent(c)
  \/ \E c \in ConnIds : TwilioMedia(c, 0, "AAAA")
  \/ \E c \in ConnIds : TwilioClose(c)
  \/ \E c \in ConnIds, e \in FnEvents : ModelEvent(c, e)
  \/ \E t \in DOMAIN tasks : BroadcastResume(t)
  \/ \E t \in DOMAIN tasks, threw \in BOOLEAN : HandlerResume(t, threw)
  \/ \E t \in DOMAIN tasks : LoadResume(t, TRUE, AssetLen)
  \/ \E tm \in timers : Tick(tm)
  \/ \E c \in ConnIds : FrontendHoldStart(c, NoStr, MaxTasks)
  \/ \E c \in ConnIds : FrontendHoldStop(c)

SpecFn == InitCall /\ [][NextFn]_vars

CallEvents == {e \in FnEvents : e.name \in FunctionNames /\ e.argsOk}

\* SpecCall: function calls of a call in progress, each with its call id:
\* the request, the start of hold music with its asset load, the handler and
\* its completion, while sockets may close.
CallIds == {"call_1", "call_2"}

CallRequests == {FnEv(n, TRUE, k) : n \in FunctionNames, k \in CallIds}

NextCall ==
  \/ \E c \in ConnIds : CloseEvent(c)
  \/ \E c \in ConnIds, e \in CallRequests : ModelEvent(c, e)
  \/ \E t \in DOMAIN tasks : BroadcastResume(t)
  \/ \E t \in DOMAIN tasks, threw \in BOOLEAN : HandlerResume(t, threw)
  \/ \E t \in DOMAIN tasks : LoadResume(t, TRUE, AssetLen)
  \/ \E tm \in timers : Tick(tm)

SpecCall == InitCall /\ [][NextCall]_vars

\* SpecBcast: the model leg of a call in progress delivering events of every
\* kind, those of the transcript and the others.
EventTypes ==
  {"session.created", "input_audio_buffer.speech_started",
   "conversation.item.created",
   "conversation.item.input_audio_transcription.completed",
   "response.content_part.added", "response.audio_transcript.delta",
   "response.audio_transcript.done", "response.done",
   "input_audio_buffer.speech_stopped"}

AllModelEvents ==
  {Ev(ty, NoStr, NoStr, NoStr, TRUE) : ty \in EventTypes}
  \cup {DeltaEv("item1", "AQID"),
        FnEv("fetch_prescription_status_for_rosie", TRUE, "call_1"),
        Ev("response.output_item.done", NoStr, "message", NoStr, TRUE)}

NextBcast ==
  \/ \E c \in ConnIds : CloseEvent(c)
  \/ \E c \in ConnIds, e \in AllModelEvents : ModelEvent(c, e)
  \/ \E t \in DOMAIN tasks : BroadcastResume(t)
  \/ \E t \in DOMAIN tasks, threw \in BOOLEAN : HandlerResume(t, threw)
  \/ \E t \in DOMAIN tasks : LoadResume(t, TRUE, AssetLen)
  \/ \E tm \in timers : Tick(tm)

SpecBcast == InitCall /\ [][NextBcast]_vars

\* The call in progress when two function calls overlap: the request call_1
\* started hold music and its handler is pending, the request call_2 arrived
\* while hold music was playing and its handler is pending too.
OverlapState ==
  /\ state = [isPlaying |-> TRUE, intervalId |-> 1,
              audioBuffer |-> [src |-> DefaultAudioFile, len |-> AssetLen]]
  /\ timers = {[position |-> chunkSize, chain |-> 1]}
  /\ tasks = SetToBag({Task("handler",
                            FnEv("fetch_prescription_status_for_rosie", TRUE, "call_1"),
                            NoStr, 0, TRUE),
                       Task("handler",
                            FnEv("fetch_prescription_status_for_rosie", TRUE, "call_2"),
                            NoStr, 0, FALSE)})
  /\ lastOp = Op("fn_called", FALSE)

InitOverlap ==
  /\ ws = [c \in ConnIds |->
             CASE c = 1 -> [role |-> "call", rs |-> "open"]
               [] c = 2 -> [role |-> "model", rs |-> "open"]
               [] c = 3 -> [role |-> "logs", rs |-> "open"]
               [] OTHER -> [role |-> "none", rs |-> "none"]]
  /\ websockets = {1, 2, 3}
  /\ nextId = 4
  /\ session = [EmptySession EXCEPT !.twilioConnId = 1, !.modelConnId = 2,
                                    !.frontendConnId = 3,
                                    !.streamSid = "SD1", !.callSid = "CA1",
                                    !.latestMediaTimestamp = 0,
                                    !.openAIApiKey = TRUE]
  /\ OverlapState
  /\ sent = <<>>
  /\ elapsedMs = 0
  /\ now = 0
  /\ activity = [createdAt |-> 0, lastActivity |-> 0]
  /\ cleanupTimer = ACTIVITY_CHECK_INTERVAL
  /\ claim = NoClaim

\* SpecOverlap: two overlapping function calls and what follows them.
SpecOverlap == InitOverlap /\ [][NextCall]_vars

\* SpecHangup: a function call whose handler is pending while the call ends:
\* the telephony leg closes or announces the end of its stream, and the
\* observer may start and stop hold music at any time.
NextHangup ==
  \/ \E c \in ConnIds : CloseEvent(c)
  \/ \E c \in ConnIds : TwilioClose(c)
  \/ \E c \in ConnIds, e \in CallEvents : ModelEvent(c, e)
  \/ \E t \in DOMAIN tasks : BroadcastResume(t)
  \/ \E t \in DOMAIN tasks, threw \in BOOLEAN : HandlerResume(t, threw)
  \/ \E t \in DOMAIN tasks : LoadResume(t, TRUE, AssetLen)
  \/ \E tm \in timers : Tick(tm)
  \/ \E c \in ConnIds : FrontendHoldStart(c, NoStr, MaxLoads)
  \/ \E c \in ConnIds : FrontendHoldStop(c)

SpecHangup == InitCall /\ [][NextHangup]_vars

\* SpecHold: the hold music scheduler driven by the observer's control
\* messages during a call in progress, with stored assets of every kind of
\* size and starts that overlap.
NextHold ==
  \/ \E c \in ConnIds : CloseEvent(c)
  \/ \E t \in DOMAIN tasks, len \in AssetLens : LoadResume(t, TRUE, len)
  \/ \E tm \in timers : Tick(tm)
  \/ \E c \in ConnIds, ty \in HoldTypes : FrontendHoldStart(c, ty, MaxLoads)
  \/ \E c \in ConnIds : FrontendHoldStop(c)

SpecHold == InitCall /\ [][NextHold]_vars

\* SpecTone: the same scheduler when the asset store holds nothing, so that
\* every playback uses the synthesized tone.
NextTone ==
  \/ \E c \in ConnIds : CloseEvent(c)
  \/ \E t \in DOMAIN tasks : LoadResume(t, FALSE, 0)
  \/ \E tm \in timers : Tick(tm)
  \/ \E c \in ConnIds, ty \in HoldTypes : FrontendHoldStart(c, ty, MaxTasks)
  \/ \E c \in ConnIds : FrontendHoldStop(c)

SpecTone == InitCall /\ [][NextTone]_vars

\* ------------------------------------------------------------------ claims

\* what the last handler run wrote to sockets of the given role
SentTo(role) == SelectSeq(sent, LAMBDA e : e.ch = "ws" /\ ws[e.to].role = role)

\* the chunks the last handler run handed to the hold music sink
SinkChunks == SelectSeq(sent, LAMBDA e : e.ch = "sink")

LiveTracked(role) == {c \in websockets : ws[c].role = role /\ IsOpen(ws, c)}

TelephonyOpen ==
  session.twilioConnId # NoConn /\ GetOpen(ws, websockets, session.twilioConnId)

ModelOpenNow == ModelWsOpen(ws, websockets, session) # NoConn

\* C1: at any instant at most one open telephony socket and at most one open
\* model socket are registered in the Session's connection table.
C1_AtMostOneLivePerRole ==
  /\ Cardinality(LiveTracked("call")) <= 1
  /\ Cardinality(LiveTracked("model")) <= 1

\* C2: when the function named by a function-call-done event is not
\* registered, nothing is written to the model leg and hold music that was
\* started for this call is not playing when the dispatch ends.
C2_UnregisteredStopsHold ==
  lastOp.name = "fn_notfound" =>
    /\ SentTo("model") = <<>>
    /\ (lastOp.startedHold => ~state.isPlaying)

\* C3: when the arguments of a function call fail to parse, nothing is written
\* to the model leg and hold music is not playing when the dispatch ends.
C3_MalformedStopsHold ==
  lastOp.name = "fn_badargs" =>
    /\ SentTo("model") = <<>>
    /\ ~state.isPlaying

\* C4: the handler run in which a function handler threw leaves hold music
\* stopped and writes nothing to the model leg, and a media frame that arrives
\* right after it is still forwarded to the open model leg as an append event.
C4_HandlerThrowStopsHold ==
  [][ /\ (lastOp'.name = "fn_threw" =>
            /\ ~state'.isPlaying
            /\ \A t \in timers' : t.chain # state.intervalId
            /\ SelectSeq(sent', LAMBDA e : e.ch = "ws" /\ ws[e.to].role = "model") = <<>>)
      /\ (lastOp.name = "fn_threw" /\ lastOp'.name = "media" /\ ModelOpenNow =>
            sent' = <<[ch |-> "ws", to |-> session.modelConnId,
                       m |-> [type |-> "input_audio_buffer.append", audio |-> "AAAA"]]>>)
    ]_vars

\* C4 witness: a handler has just thrown during a call that started hold music
\* for it, with both legs open.
C4_Witness ==
  /\ lastOp.name = "fn_threw" /\ lastOp.startedHold
  /\ ModelOpenNow /\ TelephonyOpen

\* C5: while the synthesized tone is playing, every firing of the emission
\* timer hands one full-size chunk of the tone to the sink and leaves the next
\* emission scheduled.
C5_ToneLoopsWithoutGap ==
  (lastOp.name = "tick" /\ state.isPlaying /\ state.audioBuffer.src = "generated") =>
    /\ Len(SinkChunks) = 1
    /\ SinkChunks[1].m.bytes = chunkSize
    /\ SinkChunks[1].m.src = "generated"
    /\ \E t \in timers : t.chain = state.intervalId

\* C6: however start and stop requests are issued, at most one emission
\* schedule is pending, and none after a stop.
C6_StartStopIdempotent ==
  /\ Cardinality(timers) <= 1
  /\ (lastOp.name = "hold_music.stop" => timers = {} /\ ~state.isPlaying)

\* C7: no chunk handed to the sink is shorter than the frame size.
C7_NoShortChunk ==
  \A i \in DOMAIN SinkChunks : SinkChunks[i].m.bytes >= chunkSize

\* C8: isPlaying is true exactly when the stored timer handle names a
\* pending next-chunk timer.
C8_PlayingIffTimerPending ==
  state.isPlaying <=>
    (state.intervalId # NoConn /\ \E t \in timers : t.chain = state.intervalId)

\* C9: a speech-started event that finds lastAssistantItem or
\* responseStartTimestamp unset changes no Session field and writes nothing to
\* the model leg or the telephony leg.
C9_TruncationNoOp ==
  [][ (/\ lastOp'.name \in {"truncation", "truncation_skipped"}
       /\ (session.lastAssistantItem = NoStr \/ session.responseStartTimestamp = U))
      => /\ session' = session
         /\ SelectSeq(sent', LAMBDA e : e.ch = "ws"
                                        /\ ws[e.to].role \in {"model", "call"}) = <<>>
    ]_vars

\* C9 witness: speech-started was handled with both legs open while an
\* utterance had a start reference but no item id.
C9_Witness ==
  /\ lastOp.name = "truncation_skipped"
  /\ session.lastAssistantItem = NoStr /\ session.responseStartTimestamp # U
  /\ ModelOpenNow /\ TelephonyOpen

\* C10: the audio_end_ms of every truncate instruction written to the model
\* leg is at least 0.
C10_AudioEndNonNegative ==
  \A i \in DOMAIN sent :
    (sent[i].ch = "ws" /\ ws[sent[i].to].role = "model"
     /\ sent[i].m.type = "conversation.item.truncate")
    => sent[i].m.audio_end_ms >= 0

\* C10 witness: a truncate instruction was written when the media clock was
\* behind the start reference of the utterance.
C10_Witness ==
  /\ lastOp.name = "truncation" /\ elapsedMs < 0
  /\ \E i \in DOMAIN sent :
       /\ sent[i].ch = "ws" /\ ws[sent[i].to].role = "model"
       /\ sent[i].m.type = "conversation.item.truncate"
       /\ sent[i].m.audio_end_ms = 0

Range(q) == {q[i] : i \in DOMAIN q}

\* the three messages of the handshake, in order, with a tool list made of the
\* built-in schemas and the tools of the stored config
IsHandshakeReply(msgs, config) ==
  /\ Len(msgs) = 3
  /\ msgs[1].m.type = "session.update"
  /\ Range(msgs[1].m.session.tools) = FunctionNames \cup Range(config.tools)
  /\ msgs[2].m = [type |-> "conversation.item.create", itemType |-> "message",
                  role |-> "system"]
  /\ msgs[3].m = [type |-> "response.create"]

C13_MediaForwarded ==
  [][ lastOp'.name = "media" =>
        /\ session' = [session EXCEPT !.latestMediaTimestamp = lastOp'.timestamp]
        /\ sent' = IF ModelOpenNow
                   THEN <<[ch |-> "ws", to |-> session.modelConnId,
                           m |-> [type |-> "input_audio_buffer.append",
                                  audio |-> lastOp'.payload]]>>
                   ELSE <<>>
        /\ tasks' = tasks
    ]_vars

\* C13 witness: a media frame with payload "BBBB" and timestamp 1 was
\* forwarded to the open model leg.
C13_Witness ==
  /\ lastOp.name = "media" /\ lastOp.payload = "BBBB" /\ lastOp.timestamp = 1
  /\ session.latestMediaTimestamp = 1
  /\ ModelOpenNow /\ Len(sent) = 1
  /\ sent[1].to = session.modelConnId /\ sent[1].m.audio = "BBBB"

\* C14: when a function handler completes after the telephony leg has gone,
\* every message the completion writes goes to a socket that is open, none
\* goes to a telephony socket, and hold music is not playing afterwards.
C14_CompletionAfterHangup ==
  [][ (lastOp'.name \in {"fn_returned", "fn_threw"} /\ ~TelephonyOpen) =>
        /\ \A i \in DOMAIN sent' :
             sent'[i].ch = "ws" =>
               /\ ws'[sent'[i].to].rs = "open"
               /\ ws'[sent'[i].to].role # "call"
        /\ ~state'.isPlaying
        /\ \A t \in timers' : t.chain # state.intervalId
    ]_vars

\* C14 witness: the handler of a call that started hold music returned after
\* the telephony socket had closed and its model socket had been closed.
C14_Witness ==
  /\ lastOp.name = "fn_returned" /\ lastOp.startedHold
  /\ ws[1].rs = "closed" /\ ws[2].rs \in {"closing", "closed"}
  /\ session.twilioConnId = NoConn
  /\ sent = <<>> /\ ~state.isPlaying

\* the socket whose close event the step handles
ClosedBy(c) == ws[c].rs # "closed" /\ ws'[c].rs = "closed"

\* every socket but c and the sockets in but keeps its state and registration
OthersKept(c, but) ==
  \A o \in ConnIds \ ({c} \cup but) :
    ws'[o] = ws[o] /\ (o \in websockets' <=> o \in websockets)

\* C15: the close of the current telephony socket resets hold music, leaves
\* the model socket the Session tracks closed and unregistered, and clears
\* twilioConnId, modelConnId, streamSid, callSid, lastAssistantItem,
\* responseStartTimestamp and latestMediaTimestamp, while config,
\* frontendConnId and every observer socket stay as they were; the close of a
\* model socket clears modelConnId and nothing else; the close of an observer
\* socket removes it (and its id, when it is the primary) and nothing else.
C15_CloseEffects ==
  [][ lastOp'.name = "close_event" =>
        \A c \in ConnIds :
          ClosedBy(c) =>
            /\ c \notin websockets'
            /\ CASE ws[c].role = "call" /\ session.twilioConnId = c ->
                      LET mc == session.modelConnId
                      IN /\ state' = IdleHold
                         /\ \A t \in timers' : t.chain # state.intervalId
                         /\ session' = [session EXCEPT
                                          !.twilioConnId = NoConn, !.modelConnId = NoConn,
                                          !.streamSid = NoStr, !.callSid = NoStr,
                                          !.lastAssistantItem = NoStr,
                                          !.responseStartTimestamp = U,
                                          !.latestMediaTimestamp = U]
                         /\ mc # NoConn =>
                              /\ ws'[mc].rs \in {"closing", "closed"}
                              /\ mc \notin websockets'
                         /\ OthersKept(c, {mc})
                 [] ws[c].role = "model" ->
                      /\ session' = [session EXCEPT !.modelConnId = NoConn]
                      /\ state' = state /\ timers' = timers
                      /\ OthersKept(c, {})
                 [] ws[c].role = "logs" ->
                      /\ session' = [session EXCEPT !.frontendConnId =
                                                      IF @ = c THEN NoConn ELSE @]
                      /\ state' = state /\ timers' = timers
                      /\ OthersKept(c, {})
                 [] OTHER ->
                      /\ session' = session
                      /\ state' = state /\ timers' = timers
                      /\ OthersKept(c, {})
    ]_vars

\* C16: handling hold_music.start or hold_music.stop writes nothing to any
\* model socket and changes no Session field, whatever the state of the legs.
C16_HoldControlsIntercepted ==
  [][ lastOp'.name \in {"hold_music.start", "hold_music.stop"} =>
        /\ SelectSeq(sent', LAMBDA e : e.ch = "ws" /\ ws[e.to].role = "model") = <<>>
        /\ session' = session
        /\ ws' = ws /\ websockets' = websockets
    ]_vars

\* C16 witness: hold_music.start was handled while the model leg was open and
\* its asset load is pending.
C16_Witness ==
  /\ lastOp.name = "hold_music.start"
  /\ ModelOpenNow
  /\ \E t \in DOMAIN tasks : t.pc = "load" /\ t.ev = NoEv
  /\ sent = <<>>

\* C17: a session.update from an observer is written unchanged to the model
\* socket the Session tracks when that socket is open, and its session object
\* becomes config whether or not anything was written; config changes in no
\* other way short of a full reset; and the configuration sent at
\* session.created takes its voice and its additional tools from config as it
\* then stands.
C17_ConfigForwardedAndRetained ==
  [][ /\ (lastOp'.name = "session.update" =>
            /\ session' = [session EXCEPT !.config = lastOp'.msg.session]
            /\ sent' = IF ModelOpenNow
                       THEN <<[ch |-> "ws", to |-> session.modelConnId,
                               m |-> lastOp'.msg]>>
                       ELSE <<>>)
      /\ (session'.config # session.config =>
            lastOp'.name \in {"session.update", "stream_close"})
      /\ (lastOp'.name = "session.created" =>
            \A i \in DOMAIN sent' :
              (sent'[i].ch = "ws" /\ ws[sent'[i].to].role = "model"
               /\ sent'[i].m.type = "session.update")
              => /\ sent'[i].m.session.voice =
                      IF session.config.voice # NoStr THEN session.config.voice
                      ELSE "sage"
                 /\ sent'[i].m.session.tools = backendTools \o session.config.tools)
    ]_vars

\* C17 witness: a session.update that names a voice arrived while no model
\* socket was open, and was retained.
C17_Witness ==
  /\ lastOp.name = "session.update"
  /\ lastOp.msg.session.voice = "ash"
  /\ session.config = lastOp.msg.session
  /\ session.twilioConnId # NoConn /\ ~ModelOpenNow
  /\ sent = <<>>

Dials(tk) == IF DialTask \in DOMAIN tk THEN tk[DialTask] ELSE 0

\* C19: a handshake request is issued only by the handling of a stream-start,
\* and only when the telephony leg, the stream id and the credential are set
\* and the model socket the Session tracks is not open.
C19_DialOnlyOnStart ==
  [][ Dials(tasks') > Dials(tasks) =>
        /\ lastOp'.name = "start"
        /\ session'.twilioConnId # NoConn
        /\ session'.streamSid # NoStr
        /\ session'.openAIApiKey
        /\ ~ModelOpenNow
    ]_vars

\* C19 witness: a stream-start was handled while the model leg was open and
\* issued no handshake request.
C19_Witness ==
  /\ lastOp.name = "start"
  /\ ModelOpenNow
  /\ Dials(tasks) = 0

\* C20: after a failed handshake no model connection is tracked and no model
\* socket is registered open; a media frame that follows updates
\* latestMediaTimestamp and is written nowhere; a stream-start that follows
\* issues a handshake request.
C20_HandshakeFailure ==
  [][ /\ (lastOp'.name = "dial_failed" =>
            /\ session'.modelConnId = NoConn
            /\ \A c \in websockets' : ~(ws'[c].role = "model" /\ IsOpen(ws', c)))
      /\ (lastOp.name = "dial_failed" /\ lastOp'.name = "media" =>
            /\ session'.latestMediaTimestamp = lastOp'.timestamp
            /\ sent' = <<>>)
      /\ (lastOp.name = "dial_failed" /\ lastOp'.name = "start" =>
            Dials(tasks') = Dials(tasks) + 1)
    ]_vars

\* a step of the periodic check
IsCheck == lastOp'.name \in {"check_cleanup", "check_kept"}

\* how long the Session has been inactive when the check runs
Idle == now - OrZero(activity.lastActivity)

\* the periodic check closed no connection and changed no Session field
CheckKeptAll ==
  /\ ws' = ws /\ websockets' = websockets
  /\ session' = session /\ activity' = activity
  /\ state' = state /\ timers' = timers

\* the periodic check closed every registered open socket and reset the Session
CheckToreDown ==
  /\ \A c \in ConnIds : ws'[c].rs # "open" \/ c \notin websockets
  /\ websockets' = {}
  /\ session' = EmptySession /\ activity' = NoActivity
  /\ state' = IdleHold

\* C21: the periodic check tears the Session down only when the telephony leg
\* is gone, no observer is connected and the grace period has passed, or when
\* no connection is registered and the inactivity timeout has passed; in every
\* other state it closes no connection and changes no Session field.
C21_TeardownOnlyWhenAlone ==
  [][ IsCheck =>
        IF \/ /\ session.twilioConnId = NoConn
              /\ LiveTracked("logs") = {}
              /\ 2 * Idle > CLEANUP_TIMEOUT
           \/ websockets = {} /\ Idle > CLEANUP_TIMEOUT
        THEN TRUE
        ELSE CheckKeptAll
    ]_vars

\* C21 as amended: the periodic check tears the Session down exactly when no
\* connection is registered and the Session has been inactive for longer than
\* the timeout, or when neither a telephony leg nor a call id is set and it has
\* been inactive for longer than half the timeout, observers connected or not;
\* in every other state it closes no connection and changes no Session field.
C21_TeardownWhenCallGone ==
  [][ IsCheck =>
        IF \/ websockets = {} /\ Idle > CLEANUP_TIMEOUT
           \/ /\ session.twilioConnId = NoConn /\ session.callSid = NoStr
              /\ 2 * Idle > CLEANUP_TIMEOUT
        THEN CheckToreDown
        ELSE CheckKeptAll
    ]_vars

\* C21 witness: the check has torn the Session down and closed an observer
\* that was still connected.
C21_Witness ==
  /\ lastOp.name = "check_cleanup"
  /\ session = EmptySession /\ websockets = {}
  /\ \E c \in ConnIds : ws[c].role = "logs" /\ ws[c].rs = "closing"

\* C22: responseStartTimestamp is the media timestamp at which the item named
\* by lastAssistantItem began: when an item has finished without being
\* truncated and the audio of a new item starts, the start reference becomes
\* the media timestamp of that first audio delta.
C22_StartReferenceOfCurrentItem ==
  [][ ( /\ lastOp.name = "model_event"
        /\ lastOp'.name = "audio.delta"
        /\ session.lastAssistantItem # NoStr
        /\ session'.lastAssistantItem # session.lastAssistantItem )
      => session'.responseStartTimestamp = OrZero(session.latestMediaTimestamp)
    ]_vars

\* the handler run that just ended tore the call down and reset hold music
CallJustEnded ==
  \/ lastOp.name = "stream_close"
  \/ lastOp.name = "close_event" /\ lastOp.callEnded

\* the step completes the load of a start of hold music while hold music is
\* not playing (a function call never reaches its handler otherwise)
LoadCompleted ==
  /\ \E t \in DOMAIN tasks : t.pc = "load"
  /\ ~state.isPlaying
  /\ lastOp'.name \in {"hold_started", "fn_called", "fn_notfound", "fn_badargs"}

\* C23: hold music does not outlive the call: the teardown of the call leaves
\* hold music not playing with no emission scheduled, and a start that was
\* suspended at its load when the call was torn down does not begin playing or
\* schedule an emission when its load completes.
C23_NoHoldAfterCall ==
  [][ /\ CallJustEnded' => (~state'.isPlaying /\ timers' = {})
      /\ (CallJustEnded /\ LoadCompleted)
           => (~state'.isPlaying /\ timers' = {} /\ SinkChunks' = <<>>)
    ]_vars

\* C24: when the telephony socket or the model socket reports an error, the
\* socket is removed from the connection table and its cleanup runs: for the
\* telephony leg of the call the call-scoped state is torn down and
\* twilioConnId is unset; for the model leg modelConnId is unset.
C24_ErrorRunsCleanup ==
  [][ \A c \in ConnIds :
        (lastOp'.name = "error_event" /\ lastOp'.conn = c) =>
          /\ c \notin websockets'
          /\ (ws[c].role = "call" /\ session.twilioConnId = c) =>
               /\ session'.twilioConnId = NoConn
               /\ session'.streamSid = NoStr /\ session'.callSid = NoStr
               /\ session'.modelConnId = NoConn
               /\ session'.lastAssistantItem = NoStr
               /\ session'.responseStartTimestamp = U
               /\ session'.latestMediaTimestamp = U
               /\ ~state'.isPlaying
          /\ (ws[c].role = "model" /\ session.modelConnId = c) =>
               session'.modelConnId = NoConn
    ]_vars

\* the state of a Session constructed at time t
FreshAt(t) ==
  /\ session = EmptySession
  /\ activity = [createdAt |-> t, lastActivity |-> t]
  /\ cleanupTimer = t + ACTIVITY_CHECK_INTERVAL
  /\ state = IdleHold /\ timers = {}
  /\ websockets = {}

\* C25: a full reset, by the stream-close message or by the periodic check,
\* leaves the Session as a freshly created one: every Session field has its
\* initial value, no connection is registered, hold music is idle and the
\* periodic check is scheduled as the constructor schedules it.
C25_ResetIsFresh ==
  [][ lastOp'.name \in {"stream_close", "check_cleanup"} => FreshAt(now)' ]_vars

\* C26: latestMediaTimestamp never decreases during a call: from one handler
\* run to the next that is not a stream-start or the end of the call, whatever
\* media events arrive, its value stays or grows.
C26_MediaClockMonotonic ==
  [][ ( /\ session.latestMediaTimestamp # U
        /\ session'.latestMediaTimestamp # U
        /\ lastOp'.name # "start" )
      => session'.latestMediaTimestamp >= session.latestMediaTimestamp
    ]_vars

\* what the last handler run wrote to the telephony socket the Session tracks
ToTelephony(log, sess) ==
  SelectSeq(log, LAMBDA x : x.ch = "ws" /\ x.to = sess.twilioConnId)

\* C27: an audio delta that arrives while the telephony leg is live sets
\* responseStartTimestamp to latestMediaTimestamp only if it is unset, sets
\* lastAssistantItem to the item id of the event when it carries one, and
\* writes to the telephony socket a media frame with the payload of the event
\* followed at once by a mark frame, and nothing else.
C27_AudioDeltaToTelephony ==
  [][ ( /\ lastOp'.name = "audio.delta"
        /\ TelephonyOpen /\ session.streamSid # NoStr )
      => LET e == lastOp'.event
         IN /\ session'.responseStartTimestamp =
                 IF session.responseStartTimestamp = U
                 THEN OrZero(session.latestMediaTimestamp)
                 ELSE session.responseStartTimestamp
            /\ session'.lastAssistantItem =
                 IF e.item_id # NoStr THEN e.item_id ELSE session.lastAssistantItem
            /\ ToTelephony(sent', session) =
                 << [ch |-> "ws", to |-> session.twilioConnId,
                     m |-> [event |-> "media", streamSid |-> session.streamSid,
                            payload |-> e.delta]],
                    [ch |-> "ws", to |-> session.twilioConnId,
                     m |-> [event |-> "mark", streamSid |-> session.streamSid]] >>
    ]_vars

\* C27 witness: the audio of item2 arrived at media timestamp 1 while the
\* start reference 0 of earlier audio was set: the reference was kept, the
\* item id updated and the payload "BAUG" and a mark were written.
C27_Witness ==
  /\ lastOp.name = "audio.delta"
  /\ lastOp.event.item_id = "item2" /\ lastOp.event.delta = "BAUG"
  /\ TelephonyOpen
  /\ session.lastAssistantItem = "item2"
  /\ session.responseStartTimestamp = 0 /\ session.latestMediaTimestamp = 1
  /\ Len(ToTelephony(sent, session)) = 2
  /\ ToTelephony(sent, session)[1].m.payload = "BAUG"
  /\ ToTelephony(sent, session)[2].m.event = "mark"

\* C28: when a registered handler returns and the model socket the Session
\* tracks is open, the completion writes to it the function_call_output item
\* that carries the call id of the request and the serialized result, then
\* one response.create, and nothing else; hold music is not playing afterwards.
C28_FunctionOutputThenResponse ==
  [][ (lastOp'.name = "fn_returned" /\ ModelOpenNow) =>
        /\ \E t \in DOMAIN tasks :
             /\ t.pc = "handler" /\ tasks' = Resume(t)
             /\ sent' = << [ch |-> "ws", to |-> session.modelConnId,
                            m |-> [type |-> "conversation.item.create",
                                   item |-> [type |-> "function_call_output",
                                             call_id |-> t.ev.call_id,
                                             output |-> JSONstringify(HandlerResult)]]],
                           [ch |-> "ws", to |-> session.modelConnId,
                            m |-> [type |-> "response.create"]] >>
        /\ ~state'.isPlaying
    ]_vars

\* C28 witness: the handler of request call_2, which had started hold music,
\* returned with the model leg open: its output and one response.create were
\* written and hold music is stopped.
C28_Witness ==
  /\ lastOp.name = "fn_returned" /\ lastOp.startedHold
  /\ ModelOpenNow
  /\ Len(sent) = 2
  /\ sent[1].m.type = "conversation.item.create"
  /\ sent[1].m.item.call_id = "call_2"
  /\ sent[2].m.type = "response.create"
  /\ ~state.isPlaying

\* C29: hold music for a function call is started without blocking: the
\* handler run that starts it for a registered function with valid arguments
\* also dispatches the handler, so that the handler is pending while the asset
\* is still loading.
C29_HandlerNotBehindLoad ==
  [][ lastOp'.name = "fn_hold_start" =>
        \E t \in DOMAIN tasks' : t.pc = "handler" /\ tasks'[t] > 0
    ]_vars

\* the events the last handler run handed to the broadcast
Broadcasts(log) == SelectSeq(log, LAMBDA x : x.ch = "broadcast")

\* C30: a model event is broadcast if and only if its kind is one of
\* session.created, speech_started, item.created, transcription.completed,
\* content_part.added, transcript.delta and the item-done of a function call;
\* an event of another kind, an audio delta or the item-done of an item that
\* is not a function call, is not broadcast.
C30_BroadcastIffListed ==
  [][ \A c \in ConnIds, e \in AllModelEvents :
        ModelEvent(c, e) =>
          IF \/ e.type \in {"session.created", "input_audio_buffer.speech_started",
                            "conversation.item.created",
                            "conversation.item.input_audio_transcription.completed",
                            "response.content_part.added",
                            "response.audio_transcript.delta"}
             \/ e.type = "response.output_item.done" /\ e.itemType = "function_call"
          THEN Len(Broadcasts(sent')) = 1 /\ Broadcasts(sent')[1].m = e
          ELSE Broadcasts(sent') = <<>>
    ]_vars

\* C30 as amended: a model event is broadcast if and only if its type is one
\* of session.created, speech_started, item.created, transcription.completed,
\* content_part.added, transcript.delta and response.output_item.done, the
\* item-done of an item of any type, a message as well as a function call; an
\* event of another type, such as an audio delta, is not broadcast.
C30_BroadcastIffTypeListed ==
  [][ \A c \in ConnIds, e \in AllModelEvents :
        ModelEvent(c, e) =>
          IF e.type \in {"session.created", "input_audio_buffer.speech_started",
                         "conversation.item.created",
                         "conversation.item.input_audio_transcription.completed",
                         "response.content_part.added",
                         "response.audio_transcript.delta",
                         "response.output_item.done"}
          THEN Len(Broadcasts(sent')) = 1 /\ Broadcasts(sent')[1].m = e
          ELSE Broadcasts(sent') = <<>>
    ]_vars

\* C30 witness: the item-done of a message item was handed to the broadcast.
C30_Witness ==
  /\ lastOp.name = "broadcast"
  /\ Len(Broadcasts(sent)) = 1
  /\ Broadcasts(sent)[1].m.type = "response.output_item.done"
  /\ Broadcasts(sent)[1].m.itemType = "message"

\* C31: one inbound call is assigned to one operator session: whatever claim
\* requests are made, at most one session is ever answered that its claim
\* succeeded, and once a session was answered so a verification succeeds only
\* for that session.
C31_OneSessionPerCall ==
  /\ Cardinality(claim.granted) <= 1
  /\ (lastOp.name = "connect_call" /\ lastOp.valid /\ claim.granted # {})
       => lastOp.sessionId \in claim.granted

\* C37: when a claim attempt fails because the live call could not be
\* redirected, the stored assignment is what it was before the attempt, so
\* that a verification for the claiming session does not succeed unless it
\* would have succeeded before.
C37_FailedClaimLeavesAssignment ==
  [][ lastOp'.name = "claim_failed" =>
        LET s == lastOp'.sessionId
        IN /\ claim'.assignedTo = claim.req[s].before
           /\ VerifyValid(claim', s) => claim.req[s].before = s
    ]_vars

\* the step handles the close event or the error event of socket c
ClosedOrFailed(c) ==
  \/ lastOp'.name = "close_event" /\ ClosedBy(c)
  \/ lastOp'.name = "error_event" /\ lastOp'.conn = c

\* C32: a close or error event of a model socket that is no longer the one
\* the Session tracks, a newer model socket having taken its place, leaves
\* modelConnId and the registration of the current model socket as they were,
\* so that media is still forwarded to it.
C32_StaleModelEventKeepsCurrent ==
  [][ \A c \in ConnIds :
        ( /\ ws[c].role = "model" /\ ClosedOrFailed(c)
          /\ session.modelConnId \notin {NoConn, c} )
        => /\ session'.modelConnId = session.modelConnId
           /\ session.modelConnId \in websockets => session.modelConnId \in websockets'
    ]_vars

\* C33: the close event of a telephony socket that a newer telephony socket
\* has replaced does not tear the new call down: twilioConnId, streamSid and
\* every other Session field, the model socket and its registration, and the
\* hold music state with its pending emission are left as they were.
C33_StaleCallCloseKeepsCall ==
  [][ \A c \in ConnIds :
        ( /\ lastOp'.name = "close_event" /\ ClosedBy(c)
          /\ ws[c].role = "call"
          /\ session.twilioConnId \notin {NoConn, c} )
        => /\ session' = session
           /\ state' = state /\ timers' = timers
           /\ OthersKept(c, {})
    ]_vars

\* C33 witness: the older telephony socket closed while the call of the newer
\* one had its stream started, its model leg open and hold music playing.
C33_Witness ==
  /\ lastOp.name = "close_event" /\ ~lastOp.callEnded
  /\ \E c \in ConnIds :
       /\ ws[c].role = "call" /\ ws[c].rs = "closed"
       /\ session.twilioConnId \notin {NoConn, c}
  /\ TelephonyOpen /\ session.streamSid # NoStr
  /\ ModelOpenNow
  /\ state.isPlaying /\ timers # {}

\* C34: while two function calls overlap hold music plays until the last
\* pending handler has finished: the completion of one call, by return or by
\* throw, while hold music is playing and another handler is still pending
\* leaves hold music playing.
C34_HoldUntilLastHandler ==
  [][ ( /\ lastOp'.name \in {"fn_returned", "fn_threw"}
        /\ state.isPlaying
        /\ \E t \in DOMAIN tasks' : t.pc = "handler" /\ tasks'[t] > 0 )
      => state'.isPlaying
    ]_vars

\* C35: once session.created has been handled an observer's configuration
\* message never takes the built-in tools away from the model: every
\* session.update written to the model leg by the handling of an observer
\* message that follows carries the built-in function schemas in its tools.
C35_BuiltInToolsKept ==
  [][ (lastOp.name = "session.created" /\ lastOp'.name = "session.update") =>
        \A i \in DOMAIN sent' :
          (sent'[i].ch = "ws" /\ ws[sent'[i].to].role = "model"
             /\ sent'[i].m.type = "session.update")
          => Range(backendTools) \subseteq Range(sent'[i].m.session.tools)
    ]_vars

\* C36: an inactivity check is always scheduled while the Session is in use:
\* in every state in which the Session holds a connection, also after a full
\* reset that new connections followed, a check is pending, so that the
\* supervisor evaluates the Session again.
C36_CheckAlwaysScheduled ==
  websockets # {} => cleanupTimer # U

\* C38: a broadcast request delivers its message to the observer sockets of
\* the Session only: whatever sockets the Session holds, nothing is written
\* to a telephony socket or to a model socket.
C38_BroadcastToObserversOnly ==
  [][ lastOp'.name = "http_broadcast" =>
        \A i \in DOMAIN sent' : ws[sent'[i].to].role = "logs"
    ]_vars

\* what the last handler run wrote to sockets
SocketWrites(log) == SelectSeq(log, LAMBDA x : x.ch = "ws")

\* C39: a hold music chunk is written to the telephony socket only, as one
\* media frame of the stream, and only when twilioConnId and streamSid are set
\* and that socket is registered and open; otherwise the chunk is dropped;
\* no hold music frame goes to a model socket or to an observer.
C39_HoldChunkToTelephonyOnly ==
  [][ ( /\ lastOp'.name \in {"tick", "hold_started", "fn_called", "fn_notfound",
                            "fn_badargs"}
        /\ SinkChunks' # <<>> )
      => IF TelephonyOpen /\ session.streamSid # NoStr
         THEN SocketWrites(sent') =
                << [ch |-> "ws", to |-> session.twilioConnId,
                    m |-> [event |-> "media", streamSid |-> session.streamSid,
                           payload |-> SinkChunks'[1].m]] >>
         ELSE SocketWrites(sent') = <<>>
    ]_vars

\* C39 witness: a pending emission fired during a call with its stream started
\* and its model leg open, and its chunk went to the telephony socket alone.
C39_Witness ==
  /\ lastOp.name = "tick" /\ SinkChunks # <<>>
  /\ TelephonyOpen /\ session.streamSid # NoStr /\ ModelOpenNow
  /\ Len(SocketWrites(sent)) = 1
  /\ SocketWrites(sent)[1].to = session.twilioConnId
  /\ SocketWrites(sent)[1].m.event = "media"

====
